---- MODULE Spec2Model ----
(***************************************************************************)
(* SegyFile (python/segyio/segy.py): the file object of segyio, its        *)
(* lazily built and cached views (iline, xline, gather, depth_slice), the  *)
(* macro assignment setters, the header word projection attributes(), the  *)
(* text header view and the sample format fallback of the constructor.     *)
(*                                                                         *)
(* The transport (_segyio.segyiofd) and the view classes Trace, Header,    *)
(* Line, Gather and Depth live outside segy.py; they are modelled from the *)
(* specification and from the docstrings of segy.py that describe them.    *)
(* A write to a closed file or to a file opened read-only fails in the     *)
(* transport.                                                              *)
(***************************************************************************)
EXTENDS Integers, Sequences, FiniteSets, TLC

VARIABLES
    xfd,            \* the transport: closed flag, metrics, text, headers, traces
    _mode,          \* the mode the file was opened with
    _fmt,           \* sample format code kept by the file object
    _dtype,         \* numpy dtype of the samples
    _tracecount,
    _ext_headers,
    warned,         \* whether the constructor raised the format warning
    _ilines, _xlines, _offsets, _sorting,
    _iline_length, _iline_stride, _xline_length, _xline_stride,
    _iline, _xline, _gather, depth,     \* the cached views
    built,          \* number of view objects constructed, per kind
    proj,           \* the attributes() object the caller holds, if any
    last            \* outcome of the last operation, as the caller sees it

geometry == <<_ilines, _xlines, _offsets, _sorting,
              _iline_length, _iline_stride, _xline_length, _xline_stride>>
meta     == <<_mode, _fmt, _dtype, _tracecount, _ext_headers, warned>>
views    == <<_iline, _xline, _gather, depth, built>>
vars     == <<xfd, meta, geometry, views, proj, last>>

---------------------------------------------------------------------------
(* Bounds of the model *)

MaxExtra  == 1      \* a macro assignment source has at most N + MaxExtra items
MaxSel    == 2      \* an index list given to attributes() has at most MaxSel entries
MaxExt    == 1      \* a file has 0..MaxExt extended text headers
MaxFormat == 9      \* the transport reports a format code in 0..MaxFormat

\* the payloads: a sample, a header word or a text is one of two values,
\* enough to tell a written cell from an unwritten one and adjacent items apart
Vals == {0, 1}

---------------------------------------------------------------------------
(* Optional values: Python's None and a present value *)

None      == <<>>
Some(x)   == <<x>>
Get(o)    == o[1]

Min(a, b) == IF a < b THEN a ELSE b
Max(a, b) == IF a < b THEN b ELSE a

RECURSIVE SeqsUpTo(_, _)
\* all sequences over S of length 0..n
SeqsUpTo(S, n) ==
    IF n = 0 THEN {<<>>}
    ELSE LET shorter == SeqsUpTo(S, n - 1)
         IN  shorter \cup {Append(s, x) : s \in {t \in shorter : Len(t) = n - 1}, x \in S}

\* all sequences over S of length exactly n
SeqsOfLen(S, n) == [1..n -> S]

---------------------------------------------------------------------------
(* The outcome of an operation *)

NoError == "none"

Outcome(op, err, ret, res, k) ==
    [op |-> op, err |-> err, ret |-> ret, res |-> res, k |-> k]

Raised(op, err) == Outcome(op, err, None, <<>>, 0)
Done(op)        == Outcome(op, NoError, None, <<>>, 0)

---------------------------------------------------------------------------
(* The files segyio.open hands to the caller: the metrics of the transport *)
(* and the geometry found at open time.                                    *)

INLINE_SORTING    == "INLINE_SORTING"
CROSSLINE_SORTING == "CROSSLINE_SORTING"
UNKNOWN_SORTING   == "UNKNOWN_SORTING"

\* header words a trace header is read and written by
Fields == {189, 193}

\* words of the binary header
BinFields == {3221, 3225}

UnstructuredFile(tc, sc) ==
    [ilines |-> None, xlines |-> None, offsets |-> None, sorting |-> None,
     iline_length |-> None, iline_stride |-> None,
     xline_length |-> None, xline_stride |-> None,
     tracecount |-> tc, samplecount |-> sc]

StructuredFile(ils, xls, sorting, sc) ==
    [ilines |-> Some(ils), xlines |-> Some(xls), offsets |-> Some(<<1>>),
     sorting |-> Some(sorting),
     iline_length |-> Some(Len(xls)),
     iline_stride |-> Some(IF sorting = INLINE_SORTING THEN 1 ELSE Len(ils)),
     xline_length |-> Some(Len(ils)),
     xline_stride |-> Some(IF sorting = CROSSLINE_SORTING THEN 1 ELSE Len(xls)),
     tracecount |-> Len(ils) * Len(xls), samplecount |-> sc]

UnstructuredFiles == {UnstructuredFile(2, 2), UnstructuredFile(3, 1)}

StructuredFiles ==
    {StructuredFile(<<1, 2>>, <<10>>, INLINE_SORTING, 2),
     StructuredFile(<<1>>, <<10, 20>>, CROSSLINE_SORTING, 2),
     StructuredFile(<<1, 2>>, <<10, 20>>, INLINE_SORTING, 1),
     StructuredFile(<<1, 2>>, <<10, 20>>, CROSSLINE_SORTING, 1)}

Files == UnstructuredFiles \cup StructuredFiles

\* a file made from a spec whose ilines is an empty list: it has no traces
EmptyLinesFile == StructuredFile(<<>>, <<10>>, INLINE_SORTING, 1)

\* a file made from a spec with lines and a sorting that is neither of the two
UnsortedFile == StructuredFile(<<1, 2>>, <<10, 20>>, UNKNOWN_SORTING, 1)

FormatCodes == 0..MaxFormat

\* the transport right after segyiofd(filename, mode, ...): open; the header
\* words of the file on disk differ from trace to trace
segyiofd(file, format, ext) ==
    [closed  |-> FALSE,
     metrics |-> [format |-> format, tracecount |-> file.tracecount,
                  samplecount |-> file.samplecount, ext_headers |-> ext],
     text    |-> [slot \in 0..ext |-> 0],
     bin     |-> [f \in BinFields |-> 0],
     header  |-> [i \in 0..(file.tracecount - 1) |->
                     [f \in Fields |-> IF f = 189 THEN i % 2 ELSE (i \div 2) % 2]],
     trace   |-> [i \in 0..(file.tracecount - 1) |->
                     [s \in 0..(file.samplecount - 1) |-> 0]]]

---------------------------------------------------------------------------
(* SegyFile.__init__ *)

KnownFormats == {1, 2, 3, 5, 8}

\* the dict lookup of __init__: format code -> dtype
dtype_of(fmt) ==
    CASE fmt = 1 -> "float32"
      [] fmt = 2 -> "int32"
      [] fmt = 3 -> "int16"
      [] fmt = 5 -> "float32"
      [] fmt = 8 -> "int8"

\* the format kept when the lookup raises KeyError
fallback_keeps_format(fmt) == fmt
fallback_format(fmt) == 1

init_fmt(fmt)   == IF fmt \in KnownFormats THEN fmt ELSE fallback_format(fmt)
init_dtype(fmt) == IF fmt \in KnownFormats THEN dtype_of(fmt) ELSE "float32"
init_warned(fmt) == fmt \notin KnownFormats

ViewKinds == {"inline", "crossline", "gather", "depth"}

Modes == {"r", "r+"}

InitWith(files, formats, exts, modes) ==
    \E file \in files, format \in formats, ext \in exts, mode \in modes :
        /\ xfd = segyiofd(file, format, ext)
        /\ _mode = mode
        /\ _fmt = init_fmt(xfd.metrics.format)
        /\ _dtype = init_dtype(xfd.metrics.format)
        /\ warned = init_warned(xfd.metrics.format)
        /\ _tracecount = xfd.metrics.tracecount
        /\ _ext_headers = xfd.metrics.ext_headers
        /\ _ilines = file.ilines
        /\ _xlines = file.xlines
        /\ _offsets = file.offsets
        /\ _sorting = file.sorting
        /\ _iline_length = file.iline_length
        /\ _iline_stride = file.iline_stride
        /\ _xline_length = file.xline_length
        /\ _xline_stride = file.xline_stride
        /\ _iline = None
        /\ _xline = None
        /\ _gather = None
        /\ depth = None
        /\ built = [kind \in ViewKinds |-> 0]
        /\ proj = None
        /\ last = Done("open")

Init == InitWith(Files, FormatCodes, 0..MaxExt, Modes)

---------------------------------------------------------------------------
(* Properties of the file object *)

ilines       == _ilines
xlines       == _xlines
offsets      == _offsets
sorting      == _sorting
tracecount   == _tracecount
ext_headers  == _ext_headers
samplecount  == xfd.metrics.samplecount
unstructured == ilines = None
\* '+' not in self._mode
readonly     == _mode \notin {"r+", "w+"}

unstructured_errmsg == "ValueError"
\* what the transport raises on a closed file and on a failed write
ClosedError         == "IOError"
\* whether the transport accepts a write
writable            == ~xfd.closed /\ ~readonly

\* format.__str__
format_str ==
    CASE _fmt = 1 -> "4-byte IBM float"
      [] _fmt = 2 -> "4-byte signed integer"
      [] _fmt = 3 -> "2-byte signed integer"
      [] _fmt = 4 -> "4-byte fixed point with gain"
      [] _fmt = 5 -> "4-byte IEEE float"
      [] _fmt = 8 -> "1-byte signed char"
      [] OTHER    -> "Unknown format"

---------------------------------------------------------------------------
(* The view accessors: each builds its view on the first access and keeps it *)

Line(labels, length, stride, offs, name, serial) ==
    [labels |-> labels, length |-> length, stride |-> stride,
     offsets |-> offs, name |-> name, serial |-> serial]

Gather(tr, il, xl, offs, serial) ==
    [trace |-> tr, iline |-> il, xline |-> xl, offsets |-> offs, serial |-> serial]

Depth(serial) == [serial |-> serial]

\* the cache of views and the construction counters, as one value
ViewState ==
    [iline |-> _iline, xline |-> _xline, gather |-> _gather, depth |-> depth,
     built |-> built]

Returned(err, ret, vs) == [err |-> err, ret |-> ret, vs |-> vs]

\* store a newly built view of one kind
Cached(vs, kind, obj) ==
    [[vs EXCEPT !.built[kind] = @ + 1] EXCEPT
        !.iline  = IF kind = "inline" THEN obj ELSE @,
        !.xline  = IF kind = "crossline" THEN obj ELSE @,
        !.gather = IF kind = "gather" THEN obj ELSE @,
        !.depth  = IF kind = "depth" THEN obj ELSE @]

iline_get_rebuilds(vs) ==
    IF unstructured THEN Returned(unstructured_errmsg, None, vs)
    ELSE LET obj == Some(Line(ilines, _iline_length, _iline_stride, offsets,
                              "inline", vs.built["inline"] + 1))
         IN  Returned(NoError, obj, Cached(vs, "inline", obj))

iline_get_unguarded(vs) ==
    IF vs.iline # None THEN Returned(NoError, vs.iline, vs)
    ELSE LET obj == Some(Line(ilines, _iline_length, _iline_stride, offsets,
                              "inline", vs.built["inline"] + 1))
         IN  Returned(NoError, obj, Cached(vs, "inline", obj))

\* the getter of f.iline
iline_get(vs) ==
    IF unstructured THEN Returned(unstructured_errmsg, None, vs)
    ELSE IF vs.iline # None THEN Returned(NoError, vs.iline, vs)
    ELSE LET obj == Some(Line(ilines, _iline_length, _iline_stride, offsets,
                              "inline", vs.built["inline"] + 1))
         IN  Returned(NoError, obj, Cached(vs, "inline", obj))

\* the getter of f.xline
xline_get(vs) ==
    IF unstructured THEN Returned(unstructured_errmsg, None, vs)
    ELSE IF vs.xline # None THEN Returned(NoError, vs.xline, vs)
    ELSE LET obj == Some(Line(xlines, _xline_length, _xline_stride, offsets,
                              "crossline", vs.built["crossline"] + 1))
         IN  Returned(NoError, obj, Cached(vs, "crossline", obj))

\* the getter of f.depth_slice
depth_slice_get_unguarded(vs) ==
    IF vs.depth # None THEN Returned(NoError, vs.depth, vs)
    ELSE LET obj == Some(Depth(vs.built["depth"] + 1))
         IN  Returned(NoError, obj, Cached(vs, "depth", obj))

\* the getter of f.depth_slice
depth_slice_get(vs) ==
    IF unstructured THEN Returned(unstructured_errmsg, None, vs)
    ELSE IF vs.depth # None THEN Returned(NoError, vs.depth, vs)
    ELSE LET obj == Some(Depth(vs.built["depth"] + 1))
         IN  Returned(NoError, obj, Cached(vs, "depth", obj))

\* self.trace: the Trace view made at construction
trace == "_trace"

gather_get_own_lines(vs) ==
    IF unstructured THEN Returned(unstructured_errmsg, None, vs)
    ELSE IF vs.gather # None THEN Returned(NoError, vs.gather, vs)
    ELSE LET il  == Some(Line(ilines, _iline_length, _iline_stride, offsets, "inline", 2))
             xl  == Some(Line(xlines, _xline_length, _xline_stride, offsets, "crossline", 2))
             obj == Some(Gather(trace, il, xl, offsets, vs.built["gather"] + 1))
         IN  Returned(NoError, obj, Cached(vs, "gather", obj))

\* the getter of f.gather: a first access evaluates self.iline, then self.xline
gather_get(vs) ==
    IF unstructured THEN Returned(unstructured_errmsg, None, vs)
    ELSE IF vs.gather # None THEN Returned(NoError, vs.gather, vs)
    ELSE LET il  == iline_get(vs)
             xl  == xline_get(il.vs)
             obj == Some(Gather(trace, il.ret, xl.ret, offsets, xl.vs.built["gather"] + 1))
         IN  Returned(NoError, obj, Cached(xl.vs, "gather", obj))

fast_get_iline(vs) == iline_get(vs)

\* the getter of f.fast
fast_get(vs) ==
    IF sorting = Some(INLINE_SORTING) THEN iline_get(vs)
    ELSE IF sorting = Some(CROSSLINE_SORTING) THEN xline_get(vs)
    ELSE Returned("RuntimeError", None, vs)

\* the getter of f.slow
slow_get(vs) ==
    IF sorting = Some(INLINE_SORTING) THEN xline_get(vs)
    ELSE IF sorting = Some(CROSSLINE_SORTING) THEN iline_get(vs)
    ELSE Returned("RuntimeError", None, vs)

\* the cache after a getter ran
Keep(vs) ==
    /\ _iline' = vs.iline
    /\ _xline' = vs.xline
    /\ _gather' = vs.gather
    /\ depth' = vs.depth
    /\ built' = vs.built

\* an access to a view property, as an operation of the caller
Access(op, r) ==
    /\ Keep(r.vs)
    /\ last' = Outcome(op, r.err, r.ret, <<>>, 0)
    /\ UNCHANGED <<xfd, meta, geometry, proj>>

iline       == Access("iline", iline_get(ViewState))
xline       == Access("xline", xline_get(ViewState))
depth_slice == Access("depth_slice", depth_slice_get(ViewState))
gather      == Access("gather", gather_get(ViewState))
fast        == Access("fast", fast_get(ViewState))
slow        == Access("slow", slow_get(ViewState))

---------------------------------------------------------------------------
(* flush, close, mmap: calls into the transport *)

close_forgets_geometry ==
    /\ xfd' = [xfd EXCEPT !.closed = TRUE]
    /\ last' = Done("close")
    /\ _ilines' = None
    /\ UNCHANGED <<meta, views, proj, _xlines, _offsets, _sorting,
                   _iline_length, _iline_stride, _xline_length, _xline_stride>>

\* xfd.close()
close ==
    /\ xfd' = [xfd EXCEPT !.closed = TRUE]
    /\ last' = Done("close")
    /\ UNCHANGED <<meta, geometry, views, proj>>

\* xfd.flush(): a closed transport raises
flush ==
    /\ last' = IF xfd.closed THEN Raised("flush", ClosedError) ELSE Done("flush")
    /\ UNCHANGED <<xfd, meta, geometry, views, proj>>

\* xfd.mmap(): a closed transport raises
mmap ==
    /\ last' = IF xfd.closed THEN Raised("mmap", ClosedError) ELSE Done("mmap")
    /\ UNCHANGED <<xfd, meta, geometry, views, proj>>

---------------------------------------------------------------------------
(* Python slices and ranges *)

slice(start, stop, step) == [start |-> start, stop |-> stop, step |-> step]

\* slice.indices(length), for a step other than 0
slice_indices(sl, length) ==
    LET step  == IF sl.step = None THEN 1 ELSE Get(sl.step)
        lower == IF step < 0 THEN -1 ELSE 0
        upper == IF step < 0 THEN length - 1 ELSE length
        adjusted(o, default) ==
            IF o = None THEN default
            ELSE IF Get(o) < 0 THEN Max(Get(o) + length, lower)
            ELSE Min(Get(o), upper)
    IN  [start |-> adjusted(sl.start, IF step < 0 THEN upper ELSE lower),
         stop  |-> adjusted(sl.stop, IF step < 0 THEN lower ELSE upper),
         step  |-> step]

\* len(range(start, stop, step))
range_len(start, stop, step) ==
    IF step > 0
    THEN IF start < stop THEN ((stop - start - 1) \div step) + 1 ELSE 0
    ELSE IF stop < start THEN ((start - stop - 1) \div (0 - step)) + 1 ELSE 0

\* range(start, stop, step), as a sequence
range(start, stop, step) ==
    [p \in 1..range_len(start, stop, step) |-> start + (p - 1) * step]

\* range(*sl.indices(length))
slice_range(sl, length) ==
    LET ix == slice_indices(sl, length) IN range(ix.start, ix.stop, ix.step)

---------------------------------------------------------------------------
(* Slice assignment of the views Trace, Header, Line and Depth: the macro  *)
(* assignment protocol.  A destination is a sequence of positions, each a  *)
(* set of cells <<row, column>> of a store; a source is a sequence of      *)
(* items, and the item v stands for the array that holds v in every cell.  *)

Put(store, cells, v) ==
    [i \in DOMAIN store |->
        [c \in DOMAIN store[i] |-> IF <<i, c>> \in cells THEN v ELSE store[i][c]]]

RECURSIVE zip_assign(_, _, _)
\* for pos, x in zip(dest, val): pos <- x
zip_assign(store, dest, val) ==
    IF dest = <<>> \/ val = <<>> THEN store
    ELSE zip_assign(Put(store, Head(dest), Head(val)), Tail(dest), Tail(val))

\* the loop against the transport, which raises at the first write it refuses
slice_assign(store, dest, val) ==
    IF ~writable
    THEN [err |-> IF dest = <<>> \/ val = <<>> THEN NoError ELSE ClosedError,
          store |-> store]
    ELSE [err |-> NoError, store |-> zip_assign(store, dest, val)]

Samples == 0..(samplecount - 1)
Traces  == 0..(tracecount - 1)

\* Trace.__setitem__(rng, val): the positions are trace indices
Trace_dest(rng) ==
    LET ts == slice_range(rng, tracecount)
    IN  [p \in 1..Len(ts) |-> {<<ts[p], s>> : s \in Samples}]

\* Header.__setitem__(rng, val): the positions are trace indices
Header_dest(rng) ==
    LET ts == slice_range(rng, tracecount)
    IN  [p \in 1..Len(ts) |-> {<<ts[p], f>> : f \in Fields}]

\* Depth.__setitem__(rng, val): the positions are sample indices
Depth_dest(rng) ==
    LET ds == slice_range(rng, samplecount)
    IN  [p \in 1..Len(ds) |-> {<<t, ds[p]>> : t \in Traces}]

\* the trace indices of the a-th line (a from 0) of a Line
Line_traces(line, a) ==
    LET length == Get(line.length)
        stride == Get(line.stride)
        offs   == Len(Get(line.offsets))
        trace0 == IF stride = 1 THEN a * length ELSE a
    IN  {(trace0 + p * stride) * offs + o : p \in 0..(length - 1), o \in 0..(offs - 1)}

\* the label indices a slice over the label axis selects (unit step)
Line_range(line, rng) ==
    LET labels == Get(line.labels)
        picked(a) == /\ rng.start = None \/ labels[a] >= Get(rng.start)
                     /\ rng.stop = None \/ labels[a] < Get(rng.stop)
        RECURSIVE from(_)
        from(a) == IF a > Len(labels) THEN <<>>
                   ELSE IF picked(a) THEN <<a - 1>> \o from(a + 1) ELSE from(a + 1)
    IN  from(1)

\* Line.__setitem__(rng, val): the positions are lines
Line_dest(line, rng) ==
    LET ls == Line_range(line, rng)
    IN  [p \in 1..Len(ls) |-> {<<t, s>> : t \in Line_traces(line, ls[p]), s \in Samples}]

---------------------------------------------------------------------------
(* The macro assignment setters *)

\* the sources offered to a destination of n positions: k items for every
\* k in 0..n+MaxExtra, consecutive items differing, starting from any value
Sources(n) ==
    {[j \in 1..k |-> (c + j - 1) % 2] : k \in 0..(n + MaxExtra), c \in Vals}

tail_slice == slice(Some(1), None, None)
\* the [:] every setter assigns through
full_slice == slice(None, None, None)

\* a setter that writes a store of the transport
Assign(op, val, w, vs) ==
    /\ Keep(vs)
    /\ last' = Outcome(op, w.err, None, val, Len(val))
    /\ UNCHANGED <<meta, geometry, proj>>

\* f.trace = val
trace_set(val) ==
    LET w == slice_assign(xfd.trace, Trace_dest(full_slice), val)
    IN  /\ xfd' = [xfd EXCEPT !.trace = w.store]
        /\ Assign("trace=", val, w, ViewState)

\* f.header = val
header_set(val) ==
    LET w == slice_assign(xfd.header, Header_dest(full_slice), val)
    IN  /\ xfd' = [xfd EXCEPT !.header = w.store]
        /\ Assign("header=", val, w, ViewState)

\* a setter that evaluates the getter of its view first
AssignThrough(op, val, r, dest) ==
    IF r.err # NoError
    THEN /\ Keep(r.vs)
         /\ last' = Outcome(op, r.err, None, val, Len(val))
         /\ UNCHANGED <<xfd, meta, geometry, proj>>
    ELSE LET w == slice_assign(xfd.trace, dest, val)
         IN  /\ xfd' = [xfd EXCEPT !.trace = w.store]
             /\ Assign(op, val, w, r.vs)

\* f.iline = val
iline_set(val) ==
    LET r == iline_get(ViewState)
    IN  AssignThrough("iline=", val, r,
                      IF r.err = NoError THEN Line_dest(Get(r.ret), full_slice) ELSE <<>>)

\* f.xline = val
xline_set(val) ==
    LET r == xline_get(ViewState)
    IN  AssignThrough("xline=", val, r,
                      IF r.err = NoError THEN Line_dest(Get(r.ret), full_slice) ELSE <<>>)

\* f.depth_slice = val
depth_slice_set(val) ==
    LET r == depth_slice_get(ViewState)
    IN  AssignThrough("depth_slice=", val, r, Depth_dest(full_slice))

\* the number of lines of the longer axis (0 on an unstructured file)
LineCount ==
    IF unstructured THEN 0 ELSE Max(Len(Get(ilines)), Len(Get(xlines)))

---------------------------------------------------------------------------
(* Reads and writes through the views Header, Line and Depth *)

\* f.header[i] = {field: v}
header_setitem(i, field, v) ==
    /\ IF ~writable
       THEN /\ last' = Raised("header[]=", ClosedError)
            /\ UNCHANGED xfd
       ELSE /\ xfd' = [xfd EXCEPT !.header[i][field] = v]
            /\ last' = Outcome("header[]=", NoError, None, <<i, field, v>>, 0)
    /\ UNCHANGED <<meta, geometry, views, proj>>

\* f.trace[i] = v: the trace filled with v
trace_setitem(i, v) ==
    /\ IF ~writable
       THEN /\ last' = Raised("trace[]=", ClosedError)
            /\ UNCHANGED xfd
       ELSE /\ xfd' = [xfd EXCEPT !.trace[i] = [s \in Samples |-> v]]
            /\ last' = Outcome("trace[]=", NoError, None, <<i, v>>, 0)
    /\ UNCHANGED <<meta, geometry, views, proj>>

\* the index of a label among the labels of a Line, 0 when absent
Line_index(line, label) ==
    LET labels == Get(line.labels)
        at == {a \in 1..Len(labels) : labels[a] = label}
    IN  IF at = {} THEN 0 ELSE CHOOSE a \in at : TRUE

\* line[label] on a Line the caller holds: the traces of that line, in order
Line_getitem(op, line, label) ==
    LET a      == Line_index(line, label)
        length == Get(line.length)
        stride == Get(line.stride)
        trace0 == IF stride = 1 THEN (a - 1) * length ELSE a - 1
    IN  IF a = 0 THEN Raised(op, "KeyError")
        ELSE IF xfd.closed THEN Raised(op, ClosedError)
        ELSE Outcome(op, NoError,
                     Some([p \in 1..length |-> xfd.trace[trace0 + (p - 1) * stride]]),
                     <<>>, 0)

\* a use of the inline view obtained earlier
iline_getitem(label) ==
    /\ _iline # None
    /\ last' = Line_getitem("iline[]", Get(_iline), label)
    /\ UNCHANGED <<xfd, meta, geometry, views, proj>>

\* a use of the crossline view obtained earlier
xline_getitem(label) ==
    /\ _xline # None
    /\ last' = Line_getitem("xline[]", Get(_xline), label)
    /\ UNCHANGED <<xfd, meta, geometry, views, proj>>

\* the trace index at the a-th inline and b-th crossline (both from 0)
TraceAt(a, b) ==
    a * (IF Get(_iline_stride) = 1 THEN Get(_iline_length) ELSE 1)
      + b * (IF Get(_xline_stride) = 1 THEN Get(_xline_length) ELSE 1)

\* Depth.__getitem__(d): one sample of every trace, as [iline_count, xline_count]
\* with a geometry and as [tracecount] without
Depth_getitem(op, d) ==
    IF ~(0 <= d /\ d < samplecount) THEN Outcome(op, "IndexError", None, <<>>, d)
    ELSE IF xfd.closed THEN Outcome(op, ClosedError, None, <<>>, d)
    ELSE IF unstructured
         THEN Outcome(op, NoError, Some([t \in 1..tracecount |-> xfd.trace[t - 1][d]]),
                      <<>>, d)
    ELSE Outcome(op, NoError,
                 Some([a \in 1..Len(Get(ilines)) |->
                          [b \in 1..Len(Get(xlines)) |-> xfd.trace[TraceAt(a - 1, b - 1)][d]]]),
                 <<>>, d)

\* f.depth_slice[d]
depth_slice_getitem(d) ==
    LET r == depth_slice_get(ViewState)
    IN  /\ Keep(r.vs)
        /\ last' = IF r.err # NoError THEN Outcome("depth_slice[]", r.err, None, <<>>, d)
                   ELSE Depth_getitem("depth_slice[]", d)
        /\ UNCHANGED <<xfd, meta, geometry, proj>>

\* f.bin = value: the supplied fields overwrite, the others are retained
bin_set(value) ==
    /\ IF ~writable
       THEN /\ last' = Raised("bin=", ClosedError)
            /\ UNCHANGED xfd
       ELSE /\ xfd' = [xfd EXCEPT !.bin =
                          [f \in BinFields |-> IF f \in DOMAIN value THEN value[f] ELSE @[f]]]
            /\ last' = Done("bin=")
    /\ UNCHANGED <<meta, geometry, views, proj>>

---------------------------------------------------------------------------
(* attributes(field): the projection of one header word *)

\* the object attributes(field) returns: it closes over the field, and holds
\* no values of its own
attr(field) == [field |-> field, values |-> None]

attributes(field) ==
    /\ proj' = Some(attr(field))
    /\ last' = Done("attributes")
    /\ UNCHANGED <<xfd, meta, geometry, views>>

\* xfd.field_forall(attrs, start, stop, step, field): fills the buffer attrs in
\* order with the word of traces start, start + step, ...
field_forall(n, start, stop, step, field) ==
    IF xfd.closed THEN [err |-> ClosedError, res |-> <<>>]
    ELSE [err |-> NoError,
          res |-> [p \in 1..n |-> xfd.header[start + (p - 1) * step][field]]]

\* xfd.field_foreach(attrs, xs, field): fills the buffer attrs in order with the
\* word of the traces xs names
field_foreach(n, xs, field) ==
    IF xfd.closed THEN [err |-> ClosedError, res |-> <<>>]
    ELSE IF \E p \in 1..Len(xs) : xs[p] \notin Traces
         THEN [err |-> "IndexError", res |-> <<>>]
    ELSE [err |-> NoError, res |-> [p \in 1..n |-> xfd.header[xs[p]][field]]]

\* a selection: an index list, a slice or one index
ListSel(xs)  == [kind |-> "list", xs |-> xs]
SliceSel(sl) == [kind |-> "slice", sl |-> sl]
IntSel(i)    == [kind |-> "int", i |-> i]

\* attr._getitem_list(xs)
attr_list(obj, xs) == field_foreach(Len(xs), xs, obj.field)

attr_slice_unit_step(obj, sl) ==
    IF sl.step # None /\ Get(sl.step) = 0 THEN [err |-> "ValueError", res |-> <<>>]
    ELSE LET ix == slice_indices(sl, tracecount)
         IN  field_forall(range_len(ix.start, ix.stop, 1), ix.start, ix.stop, 1, obj.field)

\* attr.__getitem__(sl), sl a slice
attr_slice(obj, sl) ==
    IF sl.step # None /\ Get(sl.step) = 0 THEN [err |-> "ValueError", res |-> <<>>]
    ELSE LET ix == slice_indices(sl, tracecount)
         IN  field_forall(range_len(ix.start, ix.stop, ix.step),
                          ix.start, ix.stop, ix.step, obj.field)

\* attr.__getitem__(rng)
attr_lookup(obj, rng) ==
    CASE rng.kind = "list"  -> attr_list(obj, rng.xs)
      [] rng.kind = "slice" -> attr_slice(obj, rng.sl)
      [] rng.kind = "int"   ->
            attr_slice(obj, slice(Some(rng.i), Some(rng.i + 1), Some(1)))

\* the word of every trace, as the projection object would keep it
Column(field) == Some([i \in Traces |-> xfd.header[i][field]])

\* the outcome of an indexing, as the caller sees it
Indexed(op, obj, rng, r) == Outcome(op, r.err, Some(rng), r.res, obj.field)

attr_getitem_memo(rng) ==
    /\ proj # None
    /\ LET obj   == Get(proj)
           kept  == IF obj.values = None THEN Column(obj.field) ELSE obj.values
           r     == attr_lookup(obj, rng)
           stale == CASE rng.kind = "list" -> [p \in 1..Len(rng.xs) |-> Get(kept)[rng.xs[p]]]
                      [] rng.kind = "int"  -> <<Get(kept)[rng.i]>>
                      [] OTHER -> r.res
       IN  /\ proj' = Some([obj EXCEPT !.values = kept])
           /\ last' = Indexed("attr[]", obj, rng,
                              IF r.err = NoError /\ r.res # <<>>
                              THEN [err |-> NoError, res |-> stale] ELSE r)
    /\ UNCHANGED <<xfd, meta, geometry, views>>

\* an indexing of the projection object the caller holds
attr_getitem(rng) ==
    /\ proj # None
    /\ last' = Indexed("attr[]", Get(proj), rng, attr_lookup(Get(proj), rng))
    /\ UNCHANGED <<xfd, meta, geometry, views, proj>>

\* f.attributes(field)[rng]: a new projection object, indexed at once
attributes_getitem(field, rng) ==
    /\ last' = Indexed("attributes()[]", attr(field), rng, attr_lookup(attr(field), rng))
    /\ UNCHANGED <<xfd, meta, geometry, views, proj>>

\* the indices offered to attributes(): one below 0 up to one past the end
IndexArgs == (0 - 1)..tracecount
StepArgs  == {None, Some(0 - 1), Some(0), Some(2)}
OptIndex  == {None} \cup {Some(i) : i \in IndexArgs}

Selections ==
    {ListSel(xs) : xs \in SeqsUpTo(IndexArgs, MaxSel)}
      \cup {SliceSel(slice(a, b, c)) : a \in OptIndex, b \in OptIndex, c \in StepArgs}
      \cup {IntSel(i) : i \in IndexArgs}

\* the selections of traces of the file, one by one or by a list
Lookups ==
    {ListSel(xs) : xs \in SeqsUpTo(Traces, MaxSel)} \cup {IntSel(i) : i \in IndexArgs}

---------------------------------------------------------------------------
(* TextHeader *)

\* another open file's text view, whose slot 0 holds v
OtherText(v) == [kind |-> "TextHeader", outer |-> "other", slot0 |-> v]
\* this file's text view
OwnText      == [kind |-> "TextHeader", outer |-> "self", slot0 |-> 0]
Text(v)      == [kind |-> "str", outer |-> "", slot0 |-> v]

\* TextHeader.__getitem__(index) of this file
text_read_unchecked(index) ==
    IF xfd.closed THEN [err |-> ClosedError, res |-> <<>>]
    ELSE [err |-> NoError, res |-> <<xfd.text[index]>>]

text_read(index) ==
    IF ~(0 <= index /\ index <= ext_headers) THEN [err |-> "IndexError", res |-> <<>>]
    ELSE IF xfd.closed THEN [err |-> ClosedError, res |-> <<>>]
    ELSE [err |-> NoError, res |-> <<xfd.text[index]>>]

\* val[0] for a TextHeader val
text_source(val) ==
    IF val.outer = "self" THEN text_read(0)
    ELSE [err |-> NoError, res |-> <<val.slot0>>]

\* f.text[index]
text_getitem(index) ==
    /\ LET r == text_read(index)
       IN  last' = Outcome("text[]", r.err, None, r.res, index)
    /\ UNCHANGED <<xfd, meta, geometry, views, proj>>

text_write_unchecked(index, v) ==
    IF ~writable THEN [err |-> ClosedError, text |-> xfd.text]
    ELSE [err |-> NoError,
          text |-> [slot \in DOMAIN xfd.text \cup {index} |->
                        IF slot = index THEN v ELSE xfd.text[slot]]]

\* TextHeader.__setitem__(index, v), v a string
text_write(index, v) ==
    IF ~(0 <= index /\ index <= ext_headers) THEN [err |-> "IndexError", text |-> xfd.text]
    ELSE IF ~writable THEN [err |-> ClosedError, text |-> xfd.text]
    ELSE [err |-> NoError, text |-> [xfd.text EXCEPT ![index] = v]]

\* f.text[index] = val
text_setitem(index, val) ==
    /\ LET src == IF val.kind = "TextHeader" THEN text_source(val)
                  ELSE [err |-> NoError, res |-> <<val.slot0>>]
           w   == IF src.err # NoError THEN [err |-> src.err, text |-> xfd.text]
                  ELSE text_write(index, src.res[1])
       IN  /\ xfd' = [xfd EXCEPT !.text = w.text]
           /\ last' = Outcome("text[]=", w.err, Some(val), <<>>, index)
    /\ UNCHANGED <<meta, geometry, views, proj>>

\* the slots offered to the text view: one below 0 up to one past the last
SlotArgs   == (0 - 1)..(MaxExt + 1)
TextValues == {Text(v) : v \in Vals} \cup {OtherText(v) : v \in Vals} \cup {OwnText}

---------------------------------------------------------------------------
(* The operations of the caller *)

trace_setter       == \E val \in Sources(tracecount) : trace_set(val)
header_setter      == \E val \in Sources(tracecount) : header_set(val)
iline_setter       == \E val \in Sources(LineCount) : iline_set(val)
xline_setter       == \E val \in Sources(LineCount) : xline_set(val)
depth_slice_setter == \E val \in Sources(samplecount) : depth_slice_set(val)
bin_setter         == \E fs \in SUBSET BinFields : \E value \in [fs -> Vals] : bin_set(value)
header_write       == \E i \in Traces, field \in Fields, v \in Vals : header_setitem(i, field, v)
trace_write        == \E i \in Traces, v \in Vals : trace_setitem(i, v)
iline_read         == \E label \in {1, 2, 3} : iline_getitem(label)
xline_read         == \E label \in {10, 20, 30} : xline_getitem(label)
depth_slice_read   == \E d \in (0 - 1)..samplecount : depth_slice_getitem(d)
attributes_new     == \E field \in Fields : attributes(field)
attributes_read    == \E rng \in Selections : attr_getitem(rng)
attributes_relookup == \E rng \in Lookups : attr_getitem(rng)
attributes_lookup  == \E field \in Fields, rng \in Lookups : attributes_getitem(field, rng)
text_get           == \E index \in SlotArgs : text_getitem(index)
text_set           == \E index \in SlotArgs, val \in TextValues : text_setitem(index, val)

NextViews == iline \/ xline \/ depth_slice \/ gather \/ close \/ flush \/ mmap

NextMacro == \/ trace_setter \/ header_setter \/ iline_setter \/ xline_setter
             \/ depth_slice_setter

NextAttr  == attributes_new \/ attributes_relookup \/ attributes_lookup \/ header_write

NextText  == text_get \/ text_set

NextDepth == depth_slice_read \/ trace_write \/ iline_read \/ xline_read

NextOps   == \/ NextViews \/ NextMacro \/ NextAttr \/ NextText \/ NextDepth \/ bin_setter

Next == NextOps \/ attributes_read \/ fast \/ slow

Spec == Init /\ [][Next]_vars

---------------------------------------------------------------------------
(* Specifications: the operations around one concern each, on the files    *)
(* that concern needs                                                      *)

\* the view accessors, the setters and reads that go through them, close
SpecViews ==
    InitWith(Files, {1}, {0}, {"r+"})
      /\ [][\/ NextViews \/ iline_setter \/ xline_setter \/ depth_slice_setter
            \/ iline_read \/ xline_read]_vars

MacroFiles ==
    {UnstructuredFile(2, 2),
     StructuredFile(<<1, 2>>, <<10>>, INLINE_SORTING, 2),
     StructuredFile(<<1>>, <<10, 20>>, CROSSLINE_SORTING, 2)}

\* macro assignment
SpecMacro == InitWith(MacroFiles, {1}, {0}, {"r+"}) /\ [][NextMacro \/ close]_vars

ProjFiles ==
    {UnstructuredFile(3, 1), StructuredFile(<<1, 2>>, <<10, 20>>, INLINE_SORTING, 1)}

\* the header word projection over every selection
SpecProj ==
    InitWith(ProjFiles, {1}, {0}, Modes)
      /\ [][attributes_new \/ attributes_read \/ close]_vars

\* header writes between lookups of the header word projection
SpecAttr ==
    InitWith({UnstructuredFile(2, 2)}, {1}, {0}, {"r+"})
      /\ [][NextAttr \/ close]_vars

\* the text headers
SpecText == InitWith(MacroFiles, {1}, 0..MaxExt, {"r+"}) /\ [][NextText \/ close]_vars

\* construction
SpecOpen == Init /\ [][close \/ flush \/ mmap]_vars

\* the depth slices
SpecDepth ==
    InitWith(Files, {1}, {0}, {"r+"})
      /\ [][depth_slice_read \/ depth_slice \/ trace_write \/ close]_vars

\* every operation: on the files opened read-only, and on a file of one trace
\* opened for writing
OpsFiles ==
    {StructuredFile(<<1, 2>>, <<10>>, INLINE_SORTING, 1),
     StructuredFile(<<1>>, <<10, 20>>, CROSSLINE_SORTING, 1)}

SpecOps ==
    (\/ InitWith(OpsFiles, {1}, {0}, {"r"})
     \/ InitWith({UnstructuredFile(1, 1)}, {1}, {0}, {"r+"}))
      /\ [][NextOps]_vars

LineFiles == Files \cup {EmptyLinesFile, UnsortedFile}

\* the line views by name and by speed, and the gathers over them
SpecLines ==
    InitWith(LineFiles, {1}, {0}, {"r+"})
      /\ [][iline \/ xline \/ gather \/ fast \/ slow \/ depth_slice \/ close]_vars

---------------------------------------------------------------------------
(* Claims *)

ViewAccessors == {"iline", "xline", "gather", "depth_slice"}

\* the cache slot an accessor fills
CacheOf(op) ==
    CASE op = "iline" -> _iline
      [] op = "xline" -> _xline
      [] op = "gather" -> _gather
      [] op = "depth_slice" -> depth

KindOf(op) ==
    CASE op = "iline" -> "inline"
      [] op = "xline" -> "crossline"
      [] op = "gather" -> "gather"
      [] op = "depth_slice" -> "depth"

\* C1: on an unstructured file every access to iline, xline, gather or
\* depth_slice, first or repeated, raises the ValueError of unstructured mode,
\* and the four view caches stay empty.
C1_UnstructuredAccessFails ==
    unstructured =>
        /\ _iline = None /\ _xline = None /\ _gather = None /\ depth = None
        /\ \A kind \in ViewKinds : built[kind] = 0
        /\ last.op \in ViewAccessors =>
              last.err = unstructured_errmsg /\ last.ret = None

C1_Witness ==
    /\ unstructured
    /\ xfd.closed
    /\ last.op = "gather"
    /\ last.err = unstructured_errmsg

\* C3 as stated: once the file is closed, an access to iline, xline, gather or
\* depth_slice fails with the error of a closed file (here on a file with
\* geometry, where no other error can take its place).
C3_AccessAfterCloseFails ==
    (xfd.closed /\ ~unstructured /\ last.op \in ViewAccessors) =>
        last.err = ClosedError

\* C4: on a structured file each view is built at most once, the cache holds
\* exactly the view that was built, and every access returns the cached view;
\* the setters, which go through the accessors, never build a second one.
C4_ViewsBuiltOnce ==
    ~unstructured =>
        /\ \A op \in ViewAccessors :
              /\ built[KindOf(op)] <= 1
              /\ (CacheOf(op) = None) <=> (built[KindOf(op)] = 0)
              /\ CacheOf(op) # None => Get(CacheOf(op)).serial = 1
        /\ last.op \in ViewAccessors =>
              /\ last.err = NoError
              /\ last.ret # None
              /\ last.ret = CacheOf(last.op)

C4_Witness ==
    /\ ~unstructured
    /\ _gather # None /\ depth # None
    /\ last.op = "iline="
    /\ last.err = NoError
    /\ last.k > 0

\* C9: a format code outside {1, 2, 3, 5, 8} is replaced at construction by 1
\* with dtype float32 and a warning, a known code is kept without a warning;
\* so the kept code is always one of the five, never 4, and its text is never
\* 'Unknown format'.
C9_FormatFallback ==
    /\ _fmt \in {1, 2, 3, 5, 8}
    /\ _fmt # 4
    /\ format_str # "Unknown format"
    /\ IF xfd.metrics.format \in {1, 2, 3, 5, 8}
       THEN _fmt = xfd.metrics.format /\ ~warned
       ELSE _fmt = 1 /\ _dtype = "float32" /\ warned

C9_Witness ==
    /\ xfd.metrics.format = 4
    /\ _fmt = 1
    /\ warned
    /\ format_str = "4-byte IBM float"
    /\ last.op = "mmap"

---------------------------------------------------------------------------
(* C2: macro assignment *)

\* where a trace lies in the survey: the index of its inline and of its
\* crossline among the labels (from 0), by the sorting of the file
IlineOf(t) ==
    IF Get(sorting) = INLINE_SORTING
    THEN t \div (Len(Get(xlines)) * Len(Get(offsets)))
    ELSE (t \div Len(Get(offsets))) % Len(Get(ilines))
XlineOf(t) ==
    IF Get(sorting) = INLINE_SORTING
    THEN (t \div Len(Get(offsets))) % Len(Get(xlines))
    ELSE t \div (Len(Get(ilines)) * Len(Get(offsets)))

\* the cells of destination position j (from 0), per setter
TracePosition(j)  == {<<j, s>> : s \in Samples}
HeaderPosition(j) == {<<j, f>> : f \in Fields}
IlinePosition(j)  == {<<t, s>> : t \in {u \in Traces : IlineOf(u) = j}, s \in Samples}
XlinePosition(j)  == {<<t, s>> : t \in {u \in Traces : XlineOf(u) = j}, s \in Samples}
DepthPosition(j)  == {<<t, j>> : t \in Traces}

\* post is pre with item j of val in every cell of position j, for the
\* j below both n and Len(val), and every other cell as it was
Assigned(pre, post, n, Position(_), val) ==
    /\ DOMAIN post = DOMAIN pre
    /\ \A i \in DOMAIN pre :
          /\ DOMAIN post[i] = DOMAIN pre[i]
          /\ \A c \in DOMAIN pre[i] :
                LET at == {j \in 0..(n - 1) : <<i, c>> \in Position(j)}
                IN  /\ Cardinality(at) = 1
                    /\ \A j \in at :
                          post[i][c] = IF j < Len(val) THEN val[j + 1] ELSE pre[i][c]

\* one step of a setter on a file that accepts writes
C2_Step ==
    LET val == last'.res IN
    /\ (last'.op = "trace=" /\ writable) =>
          /\ last'.err = NoError
          /\ Assigned(xfd.trace, xfd'.trace, tracecount, TracePosition, val)
          /\ xfd'.header = xfd.header
    /\ (last'.op = "header=" /\ writable) =>
          /\ last'.err = NoError
          /\ Assigned(xfd.header, xfd'.header, tracecount, HeaderPosition, val)
          /\ xfd'.trace = xfd.trace
    /\ (last'.op = "iline=" /\ writable /\ ~unstructured) =>
          /\ last'.err = NoError
          /\ Assigned(xfd.trace, xfd'.trace, Len(Get(ilines)), IlinePosition, val)
          /\ xfd'.header = xfd.header
    /\ (last'.op = "xline=" /\ writable /\ ~unstructured) =>
          /\ last'.err = NoError
          /\ Assigned(xfd.trace, xfd'.trace, Len(Get(xlines)), XlinePosition, val)
          /\ xfd'.header = xfd.header
    /\ (last'.op = "depth_slice=" /\ writable /\ ~unstructured) =>
          /\ last'.err = NoError
          /\ Assigned(xfd.trace, xfd'.trace, samplecount, DepthPosition, val)
          /\ xfd'.header = xfd.header

\* C2: a macro assignment through trace, header, iline, xline or depth_slice
\* on a destination of N positions (of a file that accepts writes) writes item
\* j of the source to position j for every j below min(k, N), in order, leaves
\* the positions from k on unchanged, ignores the items from N on, and raises
\* nothing; the five setters follow the same rule.
C2_MacroAssignment == [][C2_Step]_vars

\* a source of one item assigned to the two inlines: the first line is written,
\* the second keeps other content
C2_Witness ==
    /\ last.op = "iline="
    /\ last.err = NoError
    /\ last.k = 1
    /\ ~unstructured /\ Len(Get(ilines)) = 2
    /\ xfd.trace[0][0] = last.res[1]
    /\ xfd.trace[1][0] # last.res[1]

---------------------------------------------------------------------------
(* C5: the geometry is fixed at open *)

\* a cached Line was built with the geometry the file has now
LineOfGeometry(line, labels, length, stride) ==
    /\ line.labels = labels
    /\ line.length = length
    /\ line.stride = stride
    /\ line.offsets = offsets

CachedLinesOfGeometry ==
    /\ _iline # None => LineOfGeometry(Get(_iline), ilines, _iline_length, _iline_stride)
    /\ _xline # None => LineOfGeometry(Get(_xline), xlines, _xline_length, _xline_stride)
    /\ _gather # None =>
          /\ LineOfGeometry(Get(Get(_gather).iline), ilines, _iline_length, _iline_stride)
          /\ LineOfGeometry(Get(Get(_gather).xline), xlines, _xline_length, _xline_stride)

C5_Step ==
    /\ geometry' = geometry
    /\ _tracecount' = _tracecount
    /\ CachedLinesOfGeometry'

\* C5: no operation changes ilines, xlines, offsets, sorting, the line lengths
\* and strides or tracecount, and after every operation the parameters of each
\* cached Line view equal the geometry of the file.
C5_GeometryFixed == [][C5_Step]_vars

C5_Witness ==
    /\ ~unstructured
    /\ _iline # None /\ _xline # None /\ _gather # None /\ depth # None
    /\ xfd.closed
    /\ last.op = "text[]="

---------------------------------------------------------------------------
(* C6: the order of a projection's result *)

\* the trace indices range(start, stop, step) runs through
RangeIndices(start, stop, step) ==
    {i \in (0 - 1)..tracecount :
        \E n \in 0..tracecount :
            /\ i = start + n * step
            /\ step > 0 => i < stop
            /\ step < 0 => i > stop}

\* C6: on an open file attributes(field)[xs], xs a list of trace indices with
\* repeats and in any order, has Len(xs) values and position p is the word of
\* trace xs[p]; attributes(field)[start:stop:step], resolved against
\* tracecount to a range, has as many values as the range has indices and
\* position p (from 0) is the word of trace start + p * step.
C6_ProjectionOrder ==
    (last.op = "attr[]" /\ ~xfd.closed) =>
        LET sel   == Get(last.ret)
            field == Get(proj).field
        IN  /\ (sel.kind = "list" /\ \A p \in 1..Len(sel.xs) : sel.xs[p] \in Traces) =>
                  /\ last.err = NoError
                  /\ Len(last.res) = Len(sel.xs)
                  /\ \A p \in 1..Len(sel.xs) : last.res[p] = xfd.header[sel.xs[p]][field]
            /\ (sel.kind = "slice" /\ sel.sl.step # Some(0)) =>
                  LET ix == slice_indices(sel.sl, tracecount)
                  IN  /\ last.err = NoError
                      /\ Len(last.res) = Cardinality(RangeIndices(ix.start, ix.stop, ix.step))
                      /\ \A p \in 1..Len(last.res) :
                            last.res[p] = xfd.header[ix.start + (p - 1) * ix.step][field]

\* a reversed slice with a stride over traces whose words differ
C6_Witness ==
    /\ last.op = "attr[]"
    /\ last.err = NoError
    /\ Get(last.ret).kind = "slice"
    /\ Get(last.ret).sl = slice(None, None, Some(0 - 1))
    /\ Len(last.res) = tracecount
    /\ last.res[1] # last.res[2]

---------------------------------------------------------------------------
(* C7: the projection keeps no values *)

\* the positions (from 1) of a selection that name trace i
PositionsOf(sel, i) ==
    CASE sel.kind = "list" -> {p \in 1..Len(sel.xs) : sel.xs[p] = i}
      [] sel.kind = "int"  -> IF sel.i = i THEN {1} ELSE {}
      [] OTHER -> {}

C7_Step ==
    (/\ last.op = "header[]=" /\ last.err = NoError
     /\ last'.op \in {"attr[]", "attributes()[]"} /\ last'.err = NoError
     /\ last'.k = last.res[2]) =>
        /\ \A p \in PositionsOf(Get(last'.ret), last.res[1]) : last'.res[p] = last.res[3]
        /\ proj' # None => Get(proj').values = None

\* C7: a read of attributes(field) that follows a write of v to that field of
\* trace i returns v at every position that selects i, through a projection
\* object made before the write as through a new one; the projection object
\* holds no values.
C7_NoCachedValues == [][C7_Step]_vars

\* the held projection object was read, the word written, and the object read
\* again: the read shows the written word, which is not the one of the file
\* at open
C7_Witness ==
    /\ last.op = "attr[]"
    /\ last.err = NoError
    /\ Get(last.ret) = ListSel(<<1, 0>>)
    /\ last.k = 193
    /\ last.res = <<1, 1>>

---------------------------------------------------------------------------
(* C8: the slots of the text header *)

\* the text a value assigned to a slot stands for
CopiedText(val, text) == IF val.outer = "self" THEN text[0] ELSE val.slot0

C8_Step ==
    LET index == last'.k
        valid == 0 <= index /\ index <= ext_headers
    IN  /\ (last'.op = "text[]" /\ ~xfd.closed) =>
              IF valid THEN last'.err = NoError /\ last'.res = <<xfd.text[index]>>
              ELSE last'.err = "IndexError"
        /\ (last'.op = "text[]=" /\ writable) =>
              IF valid
              THEN /\ last'.err = NoError
                   /\ xfd'.text = [xfd.text EXCEPT
                                     ![index] = CopiedText(Get(last'.ret), xfd.text)]
              ELSE last'.err = "IndexError"
        /\ (last'.op = "text[]=" /\ last'.err # NoError) => xfd'.text = xfd.text
        /\ DOMAIN xfd'.text = 0..ext_headers

\* C8: on an open file a get or a set of slot index, 0 <= index <=
\* ext_headers, reads or writes that slot of the transport, and of any other
\* index raises IndexError; a set that fails writes no text header, and a set
\* whose value is a text header view writes the text of slot 0 of that view.
C8_TextSlots == [][C8_Step]_vars

\* a text header view was assigned to the slot past the last one
C8_Witness ==
    /\ last.op = "text[]="
    /\ last.err = "IndexError"
    /\ last.k = ext_headers + 1
    /\ Get(last.ret).kind = "TextHeader"
    /\ ~xfd.closed

---------------------------------------------------------------------------
(* C10: the depth slices *)

\* C10 as stated: on an open file without geometry f.depth_slice[d], 0 <= d <
\* samplecount, is the sequence of sample d of every trace, in trace order.
C10_DepthOnUnstructured ==
    (/\ last.op = "depth_slice[]" /\ unstructured /\ ~xfd.closed
     /\ 0 <= last.k /\ last.k < samplecount) =>
        /\ last.err = NoError
        /\ Len(Get(last.ret)) = tracecount
        /\ \A t \in Traces : Get(last.ret)[t + 1] = xfd.trace[t][last.k]

\* C10: f.depth_slice raises the ValueError of unstructured mode on a file
\* without geometry, and no Depth view is built; on an open file with geometry
\* f.depth_slice[d], 0 <= d < samplecount, is an array of iline_count rows of
\* xline_count values, sample d of the trace of that inline and crossline.
C10_DepthSlice ==
    last.op \in {"depth_slice", "depth_slice[]"} =>
        /\ unstructured =>
              last.err = unstructured_errmsg /\ last.ret = None /\ depth = None
        /\ (/\ last.op = "depth_slice[]" /\ ~unstructured /\ ~xfd.closed
            /\ 0 <= last.k /\ last.k < samplecount) =>
              /\ last.err = NoError
              /\ Len(Get(last.ret)) = Len(Get(ilines))
              /\ \A a \in 1..Len(Get(ilines)) :
                    /\ Len(Get(last.ret)[a]) = Len(Get(xlines))
                    /\ \A t \in Traces :
                          IlineOf(t) = a - 1 =>
                              Get(last.ret)[a][XlineOf(t) + 1] = xfd.trace[t][last.k]

C10_Witness ==
    /\ last.op = "depth_slice[]"
    /\ unstructured
    /\ ~xfd.closed
    /\ last.k = 0
    /\ last.err = unstructured_errmsg

---------------------------------------------------------------------------
(* C11: which files are unstructured *)

\* C11 as stated: a file is unstructured exactly when its ilines is absent or
\* has length 0, and then an access to iline, xline, gather or depth_slice
\* fails and no view is built.
C11_UnstructuredIffNoIlines ==
    LET nolines == ilines = None \/ Len(Get(ilines)) = 0
    IN  /\ unstructured <=> nolines
        /\ nolines =>
              /\ _iline = None /\ _xline = None /\ _gather = None /\ depth = None
              /\ last.op \in ViewAccessors => last.err # NoError

---------------------------------------------------------------------------
(* C12: the lookup of one trace *)

\* C12 as stated: on an open file attributes(field)[i] holds exactly the word
\* of trace i when 0 <= i < tracecount, and raises IndexError for every other
\* i, -1 and tracecount among them.
C12_ScalarLookup ==
    (/\ last.op \in {"attr[]", "attributes()[]"}
     /\ ~xfd.closed
     /\ Get(last.ret).kind = "int") =>
        LET i == Get(last.ret).i
        IN  IF i \in Traces
            THEN last.err = NoError /\ last.res = <<xfd.header[i][last.k]>>
            ELSE last.err = "IndexError"

---------------------------------------------------------------------------
(* C13: the line views by speed *)

\* the cached line view fast or slow stands for, by the sorting of the file
LineBySpeed(op, il, xl) ==
    IF (op = "fast") <=> (sorting = Some(INLINE_SORTING)) THEN il ELSE xl

C13_Step ==
    last'.op \in {"fast", "slow"} =>
        IF ~unstructured /\ sorting \in {Some(INLINE_SORTING), Some(CROSSLINE_SORTING)}
        THEN /\ last'.err = NoError
             /\ last'.ret # None
             /\ last'.ret = LineBySpeed(last'.op, _iline', _xline')
             /\ Get(last'.ret).name =
                   LineBySpeed(last'.op, "inline", "crossline")
             /\ _iline # None => _iline' = _iline
             /\ _xline # None => _xline' = _xline
             /\ built'["inline"] <= 1 /\ built'["crossline"] <= 1
        ELSE /\ last'.err # NoError
             /\ last'.ret = None
             /\ views' = views
             /\ ~unstructured => last'.err = "RuntimeError"

\* C13: on a file with geometry and inline sorting fast is the cached iline
\* view and slow the cached xline view, with crossline sorting the other way
\* round, built at most once and the same objects iline and xline return;
\* with any other sorting both raise RuntimeError and build nothing, and on a
\* file without geometry both fail and build nothing.
C13_FastSlow == [][C13_Step]_vars

\* slow gave the inline view of a crossline sorted file, the crossline view
\* not yet built
C13_Witness ==
    /\ last.op = "slow"
    /\ sorting = Some(CROSSLINE_SORTING)
    /\ last.err = NoError
    /\ last.ret = _iline
    /\ _xline = None

---------------------------------------------------------------------------
(* C14: the gather view and the line views *)

GatherOverCachedLines ==
    (~unstructured /\ _gather # None) =>
        /\ _iline # None /\ _xline # None
        /\ Get(_gather).iline = _iline
        /\ Get(_gather).xline = _xline
        /\ Get(_gather).trace = trace
        /\ Get(_gather).offsets = offsets
        /\ built["inline"] = 1 /\ built["crossline"] = 1
        /\ Get(_iline).serial = 1 /\ Get(_xline).serial = 1

C14_Step ==
    /\ GatherOverCachedLines'
    /\ (last'.op = "gather" /\ ~unstructured) =>
          /\ _gather' # None /\ last'.ret = _gather'
          /\ _iline # None => _iline' = _iline
          /\ _xline # None => _xline' = _xline

\* C14: on a file with geometry a cached gather view means both line views
\* are cached, and the gather holds exactly those two Line objects, the trace
\* view and the offsets of the file; an access to gather builds the line
\* views not built before and keeps the ones that were, so no axis ever has a
\* second Line.
C14_GatherOverLines == [][C14_Step]_vars

\* gather was accessed on a crossline sorted file and holds the two lines, one
\* of each axis; no depth view was built
C14_Witness ==
    /\ last.op = "gather"
    /\ last.err = NoError
    /\ sorting = Some(CROSSLINE_SORTING)
    /\ _gather # None
    /\ Get(Get(_gather).iline).name = "inline"
    /\ Get(Get(_gather).xline).name = "crossline"
    /\ depth = None

====
